---- MODULE Spec2Model ----
(***************************************************************************)
(* OK PDF (src/types.ts): the App component's state and handlers, and the  *)
(* pdfService functions mergePdfs, splitPdf, extractText and               *)
(* createPdfFromText.                                                      *)
(*                                                                         *)
(* Three specifications share the variables:                               *)
(*   Spec     the App component: user events and the continuations of the  *)
(*            async handlers run*, each await being one step;              *)
(*   FairSpec Spec, with every awaited call eventually settling;           *)
(*   SvcSpec  one pdfService call on an input drawn from bounded sets,     *)
(*            stepped through its loop.                                    *)
(*                                                                         *)
(* A JavaScript string that the code inspects (split, substring, join,     *)
(* template literals) is a sequence of one-character strings.  Lengths on  *)
(* a page are in 1/100 pt, so that the A4 height 841.89 is an integer.     *)
(***************************************************************************)
EXTENDS Integers, Sequences, FiniteSets, TLC

VARIABLES
  mode,            \* useState<ToolMode>
  files,           \* useState<FileData[]>
  loading,         \* useState(false)
  chatHistory,     \* useState<ChatMessage[]>, each message with by: the
                   \* number of the runRead invocation that appended it
  inputText,       \* useState('')
  outputFilename,  \* useState('result')
  tasks,           \* the async handlers suspended at an await, oldest first
  started,         \* how many handlers have passed their precondition checks
  last,            \* what the step just taken showed the user: alert, download
  call             \* the pdfService call of SvcSpec

appVars == <<mode, files, loading, chatHistory, inputText,
             outputFilename, tasks, started, last>>
vars == <<mode, files, loading, chatHistory, inputText,
          outputFilename, tasks, started, last, call>>

(***************************************************************************)
(* Bounds                                                                  *)
(***************************************************************************)
MaxPageCount == 3     \* pages of a source document
MaxRequest == 3       \* length of a requested page-number list
MaxMergeFiles == 3    \* files handed to one mergePdfs call
MaxLines == 45        \* lines of a text handed to createPdfFromText
MaxFiles == 2         \* length of the App's file list
MaxStarts == 2        \* actions started in one behaviour

(***************************************************************************)
(* Strings as character sequences                                          *)
(***************************************************************************)
NL == "\n"

Min(a, b) == IF a < b THEN a ELSE b

RECURSIVE Concat(_)
Concat(ss) == IF ss = <<>> THEN <<>> ELSE Head(ss) \o Concat(Tail(ss))

RECURSIVE Join(_, _)
\* Array.prototype.join
Join(ss, sep) ==
  IF ss = <<>> THEN <<>>
  ELSE IF Len(ss) = 1 THEN Head(ss)
  ELSE Head(ss) \o sep \o Join(Tail(ss), sep)

RECURSIVE Split(_, _)
\* String.prototype.split on a one-character separator: always at least one
\* piece, the empty string gives one empty piece
Split(s, c) ==
  IF \A k \in 1..Len(s) : s[k] # c THEN <<s>>
  ELSE LET k == CHOOSE j \in 1..Len(s) :
                  s[j] = c /\ \A m \in 1..(j - 1) : s[m] # c
       IN <<SubSeq(s, 1, k - 1)>> \o Split(SubSeq(s, k + 1, Len(s)), c)

\* String.prototype.substring(0, n)
Substring0(s, n) == SubSeq(s, 1, Min(n, Len(s)))

DigitChars == <<"0", "1", "2", "3", "4", "5", "6", "7", "8", "9">>

RECURSIVE Digits(_)
\* the decimal digits of a natural number, as `${i}` gives them
Digits(n) ==
  IF n < 10 THEN <<DigitChars[n + 1]>>
  ELSE Digits(n \div 10) \o <<DigitChars[(n % 10) + 1]>>

(***************************************************************************)
(* Documents.  A file is [name, pages, valid]: decoding an invalid file    *)
(* rejects; a page is what copyPages copies and what getTextContent reads. *)
(***************************************************************************)
File(name, valid, pages) == [name |-> name, valid |-> valid, pages |-> pages]

NumberedPages(name, n) ==
  [i \in 1..n |-> [src |-> name, idx |-> i - 1, items |-> <<>>, drawn |-> <<>>]]

\* a document whose pages hold the given text fragments
TextPages(itemSeq) ==
  [i \in 1..Len(itemSeq) |->
     [src |-> <<"T", 0>>, idx |-> i - 1, items |-> itemSeq[i], drawn |-> <<>>]]

\* a file the codec cannot decode
BadFile == File(<<"X", 0>>, FALSE, <<>>)

RECURSIVE SeqsUpTo(_, _)
\* the sequences over S of length at most n
SeqsUpTo(S, n) ==
  IF n = 0 THEN {<<>>}
  ELSE LET shorter == SeqsUpTo(S, n - 1)
       IN  shorter \cup {Append(q, x) : q \in shorter, x \in S}

\* pdf.getPageIndices()
getPageIndices(pdf) == [i \in 1..Len(pdf) |-> i - 1]

\* newPdf.copyPages(pdf, indices): the copies of the pages at the indices,
\* in the order of the indices
copyPages(pdf, indices) == [k \in 1..Len(indices) |-> pdf[indices[k] + 1]]

(***************************************************************************)
(* splitPdf                                                                *)
(***************************************************************************)
selectIndicesUnshifted(pageNumbers, pageCount) ==
  SelectSeq(pageNumbers, LAMBDA n : n >= 0 /\ n < pageCount)

\* pageNumbers.map(n => n - 1).filter(n => n >= 0 && n < pdf.getPageCount())
selectIndices(pageNumbers, pageCount) ==
  SelectSeq([k \in 1..Len(pageNumbers) |-> pageNumbers[k] - 1],
            LAMBDA n : n >= 0 /\ n < pageCount)

\* the pages of newPdf when save is called
splitPdf(pdf, pageNumbers) ==
  LET indices == selectIndices(pageNumbers, Len(pdf))
      copiedPages == copyPages(pdf, indices)
  IN  <<>> \o copiedPages

(***************************************************************************)
(* mergePdfs                                                               *)
(***************************************************************************)
mergeOnePrepend(mergedPdf, pdf) == copyPages(pdf, getPageIndices(pdf)) \o mergedPdf

\* one iteration of the loop: copy all pages of pdf and add them at the end
mergeOne(mergedPdf, pdf) == mergedPdf \o copyPages(pdf, getPageIndices(pdf))

RECURSIVE mergeFrom(_, _)
mergeFrom(mergedPdf, pdfs) ==
  IF pdfs = <<>> THEN mergedPdf
  ELSE mergeFrom(mergeOne(mergedPdf, Head(pdfs)), Tail(pdfs))

\* the pages of mergedPdf when save is called (all files decoded)
mergePdfs(pdfs) == mergeFrom(<<>>, pdfs)

(***************************************************************************)
(* extractText                                                             *)
(***************************************************************************)
PageMarker(i) ==
  <<"-", "-", "-", " ", "P", "a", "g", "e", " ">> \o Digits(i)
    \o <<" ", "-", "-", "-">>

pageBlockNoSeparator(i, items) ==
  PageMarker(i) \o <<NL>> \o Concat(items) \o <<NL, NL>>

\* `--- Page ${i} ---\n${pageText}\n\n` with pageText the items joined by ' '
pageBlock(i, items) ==
  LET pageText == Join(items, <<" ">>)
  IN  PageMarker(i) \o <<NL>> \o pageText \o <<NL, NL>>

RECURSIVE extractFrom(_, _, _)
extractFrom(fullText, pdf, i) ==
  IF i > Len(pdf) THEN fullText
  ELSE extractFrom(fullText \o pageBlock(i, pdf[i].items), pdf, i + 1)

extractText(pdf) == extractFrom(<<>>, pdf, 1)

(***************************************************************************)
(* createPdfFromText                                                       *)
(***************************************************************************)
height == 84189          \* page.getSize() of addPage(): A4, 841.89 pt
fontSize == 12 * 100
margin == 50 * 100
lineGap == 5 * 100
breakSlack == 20 * 100
maxChars == 100

needsNewPageAtMargin(cursorY) == cursorY < margin

\* if (cursorY < margin + 20)
needsNewPage(cursorY) == cursorY < margin + breakSlack

\* one iteration of the loop over the lines; st = [pages, cursorY], a page
\* being the sequence of its drawText calls
layoutLine(st, line) ==
  LET brk == needsNewPage(st.cursorY)
      pgs == IF brk THEN Append(st.pages, <<>>) ELSE st.pages
      y   == IF brk THEN height - margin ELSE st.cursorY
      cur == Len(pgs)
      drw == [text |-> Substring0(line, maxChars), x |-> margin, y |-> y,
              size |-> fontSize]
  IN  [pages   |-> [pgs EXCEPT ![cur] = Append(pgs[cur], drw)],
       cursorY |-> y - (fontSize + lineGap)]

layoutStart == [pages |-> << <<>> >>, cursorY |-> height - margin]

RECURSIVE layoutFrom(_, _)
layoutFrom(st, lines) ==
  IF lines = <<>> THEN st
  ELSE layoutFrom(layoutLine(st, Head(lines)), Tail(lines))

\* the pages of pdfDoc when save is called
createPdfFromText(text) == layoutFrom(layoutStart, Split(text, NL)).pages

(***************************************************************************)
(* The App component: initial state (lines 32-38)                          *)
(***************************************************************************)
S_result == <<"r", "e", "s", "u", "l", "t">>
NoHandler ==
  [kind |-> "none", outcome |-> "none", alerted |-> FALSE,
   download |-> <<>>, saved |-> <<>>]
NoCall == [op |-> "none", pc |-> "idle"]

AppInit ==
  /\ mode = "HOME"
  /\ files = <<>>
  /\ loading = FALSE
  /\ chatHistory = <<>>
  /\ inputText = <<>>
  /\ outputFilename = S_result
  /\ tasks = <<>>
  /\ started = 0
  /\ last = NoHandler

Init == AppInit /\ call = NoCall

(***************************************************************************)
(* String helpers of the handlers                                          *)
(***************************************************************************)
S_pdf == <<".", "p", "d", "f">>
S_doc == <<".", "d", "o", "c">>
S_merged_ok == <<"m", "e", "r", "g", "e", "d", "_", "o", "k">>
S_split_ok == <<"s", "p", "l", "i", "t", "_", "o", "k">>
S_edited_ok == <<"e", "d", "i", "t", "e", "d", "_", "o", "k">>
S_hindi_ok == <<"h", "i", "n", "d", "i", "_", "o", "k">>
S_converted_ok == <<"c", "o", "n", "v", "e", "r", "t", "e", "d", "_", "o", "k">>
S_photo_ok == <<"p", "h", "o", "t", "o", "_", "o", "k">>
S_NoResponse == <<"N", "o", " ", "r", "e", "s", "p", "o", "n", "s", "e", ".">>
S_TranslationFailed == <<"T", "r", "a", "n", "s", "l", "a", "t", "i", "o", "n", " ", "f", "a", "i", "l", "e", "d", ".">>
S_NoTextFound == <<"N", "o", " ", "t", "e", "x", "t", " ", "f", "o", "u", "n", "d", ".">>

\* a || b on strings: the empty string is falsy
OrElse(a, b) == IF a = <<>> THEN b ELSE a

\* String.prototype.endsWith
EndsWith(s, suffix) ==
  /\ Len(s) >= Len(suffix)
  /\ SubSeq(s, Len(s) - Len(suffix) + 1, Len(s)) = suffix

RECURSIVE TrimStart(_)
TrimStart(s) == IF s # <<>> /\ Head(s) = " " THEN TrimStart(Tail(s)) ELSE s
RECURSIVE TrimEnd(_)
TrimEnd(s) ==
  IF s # <<>> /\ s[Len(s)] = " " THEN TrimEnd(SubSeq(s, 1, Len(s) - 1)) ELSE s
\* String.prototype.trim
Trim(s) == TrimEnd(TrimStart(s))

IsDigit(c) == \E d \in 1..10 : DigitChars[d] = c
DigitValue(c) == (CHOOSE d \in 1..10 : DigitChars[d] = c) - 1
RECURSIVE LeadingDigits(_, _)
LeadingDigits(s, acc) ==
  IF s # <<>> /\ IsDigit(Head(s))
  THEN LeadingDigits(Tail(s), acc * 10 + DigitValue(Head(s)))
  ELSE acc
NaN == [nan |-> TRUE, n |-> 0]
\* parseInt: leading blanks, an optional sign, then the leading run of
\* decimal digits; NaN when there is no digit
parseInt(s) ==
  LET t == TrimStart(s)
      signed == t # <<>> /\ Head(t) \in {"-", "+"}
      u == IF signed THEN Tail(t) ELSE t
  IN  IF u = <<>> \/ ~IsDigit(Head(u)) THEN NaN
      ELSE [nan |-> FALSE,
            n |-> (IF signed /\ Head(t) = "-" THEN -1 ELSE 1) * LeadingDigits(u, 0)]

\* pages.split(',').map(n => parseInt(n.trim())).filter(n => !isNaN(n))
parsePages(pages) ==
  LET toks == Split(pages, ",")
      nums == [k \in 1..Len(toks) |-> parseInt(Trim(toks[k]))]
      kept == SelectSeq(nums, LAMBDA x : ~x.nan)
  IN  [k \in 1..Len(kept) |-> kept[k].n]

(***************************************************************************)
(* What the user can pick and type                                         *)
(***************************************************************************)
ToolModes ==
  {"READ", "SPLIT", "MERGE", "CONVERT_DOC", "EDIT", "TRANSLATE", "PHOTO_TO_PDF"}
GoodFile ==
  File(<<"A", 2>>, TRUE,
       [i \in 1..2 |-> [src |-> <<"A", 2>>, idx |-> i - 1,
                        items |-> << <<"h">> >>, drawn |-> <<>>]])
FilePool == {GoodFile}
OutputNames == {<<>>, S_result}
InputTexts == {<<>>, <<"q", "1">>}
\* answers to prompt(); cancelling gives null, which is falsy like ''
PromptPages == {<<>>, <<"2", ",", " ", "1">>, <<"9">>, <<"x">>}
PromptTexts == {<<>>, <<"w">>}
\* response.text of the language model
ResponseTexts == {<<"o", "k">>}

(***************************************************************************)
(* File list handlers (lines 40-54)                                        *)
(***************************************************************************)
\* A FileData is modelled by its file: name and size are read off the file,
\* and the id is a fresh random string, so that filtering by id removes
\* exactly the entry clicked, the entry at that position.
handleFileUpload ==
  /\ mode # "HOME"
  /\ \E picked \in SeqsUpTo(FilePool, MaxFiles - Len(files)) \ {<<>>} :
       LET newFiles == [k \in 1..Len(picked) |-> [file |-> picked[k]]]
       IN  files' = files \o newFiles
  /\ UNCHANGED <<mode, loading, chatHistory, inputText, outputFilename,
                 tasks, started, call>>
  /\ last' = NoHandler

removeFile ==
  /\ mode # "HOME"
  /\ \E i \in 1..Len(files) :
       files' = SubSeq(files, 1, i - 1) \o SubSeq(files, i + 1, Len(files))
  /\ UNCHANGED <<mode, loading, chatHistory, inputText, outputFilename,
                 tasks, started, call>>
  /\ last' = NoHandler

(***************************************************************************)
(* downloadBlob (lines 56-66)                                              *)
(***************************************************************************)
finalName(fileName) ==
  IF EndsWith(fileName, S_pdf) \/ EndsWith(fileName, S_doc) THEN fileName
  ELSE fileName \o S_pdf

\* the download a.click() emits; pages is the page count of a PDF
downloadBlob(type, pages, fileName) ==
  [name |-> finalName(fileName), type |-> type, pages |-> pages]

(***************************************************************************)
(* Handlers: the synchronous part up to the first await                    *)
(***************************************************************************)
Returned(kind, outcome, alerted) ==
  [kind |-> kind, outcome |-> outcome, alerted |-> alerted,
   download |-> <<>>, saved |-> <<>>]

\* the handler returns at a precondition check: alert(...) or a bare return
ReturnEarly(kind, outcome, alerted) ==
  /\ last' = Returned(kind, outcome, alerted)
  /\ UNCHANGED <<mode, files, loading, chatHistory, inputText,
                 outputFilename, tasks, started, call>>

\* setLoading(true), then the handler runs to its first await.  The task
\* keeps what its continuation reads from the closure of the render it was
\* created in: the files handed on, the prompt's answer or the chat
\* message, and the output filename (name) where a download follows.
\* no numbers the invocations in the order they start; it is an annotation
\* of the model, which the transcript uses to say whose message is whose.
Suspend(kind, pc, input, pageArr, text, name) ==
  /\ started < MaxStarts
  /\ started' = started + 1
  /\ loading' = TRUE
  /\ tasks' = Append(tasks,
       [kind |-> kind, pc |-> pc, input |-> input, pageArr |-> pageArr,
        text |-> text, name |-> name, val |-> <<>>, no |-> started + 1])

mergeTooFewAtOne(fs) == Len(fs) < 1
\* if (files.length < 2)
mergeTooFew(fs) == Len(fs) < 2
\* if (files.length === 0)
noFiles(fs) == Len(fs) = 0

runMerge ==
  IF mergeTooFew(files) THEN ReturnEarly("runMerge", "rejected", TRUE)
  ELSE /\ Suspend("runMerge", "mergePdfs",
                  [i \in 1..Len(files) |-> files[i].file], <<>>, <<>>,
                  outputFilename)
       /\ UNCHANGED <<mode, files, chatHistory, inputText,
                 outputFilename, call>>
       /\ last' = NoHandler

runSplit ==
  IF noFiles(files) THEN ReturnEarly("runSplit", "rejected", TRUE)
  ELSE \E pages \in PromptPages :
         IF pages = <<>> THEN ReturnEarly("runSplit", "cancelled", FALSE)
         ELSE /\ Suspend("runSplit", "splitPdf", <<files[1].file>>,
                         parsePages(pages), <<>>, outputFilename)
              /\ UNCHANGED <<mode, files, chatHistory, inputText,
                 outputFilename, call>>
              /\ last' = NoHandler

runEdit ==
  IF noFiles(files) THEN ReturnEarly("runEdit", "rejected", TRUE)
  ELSE \E text \in PromptTexts :
         IF text = <<>> THEN ReturnEarly("runEdit", "cancelled", FALSE)
         ELSE /\ Suspend("runEdit", "editPdf", <<files[1].file>>, <<>>, text,
                         outputFilename)
              /\ UNCHANGED <<mode, files, chatHistory, inputText,
                 outputFilename, call>>
              /\ last' = NoHandler

runRead ==
  IF noFiles(files) THEN ReturnEarly("runRead", "rejected", TRUE)
  ELSE IF inputText = <<>> THEN ReturnEarly("runRead", "cancelled", FALSE)
  ELSE LET userMsg == inputText
       IN  /\ Suspend("runRead", "extractText", <<files[1].file>>, <<>>, userMsg,
                   <<>>)
           /\ inputText' = <<>>
           /\ chatHistory' = Append(chatHistory,
                [role |-> "user", content |-> userMsg, by |-> started + 1])
           /\ UNCHANGED <<mode, files, outputFilename, call>>
           /\ last' = NoHandler

runTranslate ==
  IF noFiles(files) THEN ReturnEarly("runTranslate", "rejected", TRUE)
  ELSE /\ Suspend("runTranslate", "extractText", <<files[1].file>>, <<>>, <<>>,
                  outputFilename)
       /\ UNCHANGED <<mode, files, chatHistory, inputText, outputFilename, call>>
       /\ last' = NoHandler

runConvertDoc ==
  IF noFiles(files) THEN ReturnEarly("runConvertDoc", "rejected", TRUE)
  ELSE /\ Suspend("runConvertDoc", "extractText", <<files[1].file>>, <<>>, <<>>,
                  outputFilename)
       /\ UNCHANGED <<mode, files, chatHistory, inputText, outputFilename, call>>
       /\ last' = NoHandler

runPhotoToPdf ==
  IF noFiles(files) THEN ReturnEarly("runPhotoToPdf", "rejected", TRUE)
  ELSE /\ Suspend("runPhotoToPdf", "fileToBase64", <<files[1].file>>, <<>>, <<>>,
                  outputFilename)
       /\ UNCHANGED <<mode, files, chatHistory, inputText, outputFilename, call>>
       /\ last' = NoHandler

(***************************************************************************)
(* Handlers: the continuation after each await                             *)
(***************************************************************************)
Without(q, id) == SubSeq(q, 1, id - 1) \o SubSeq(q, id + 1, Len(q))

ReturnKeepsLoading(id, outcome, alerted, download, saved) ==
  /\ tasks' = Without(tasks, id)
  /\ loading' = loading
  /\ last' = [kind |-> tasks[id].kind, outcome |-> outcome,
              alerted |-> alerted, download |-> download, saved |-> saved]

\* the handler returns: its finally block has run
Return(id, outcome, alerted, download, saved) ==
  /\ tasks' = Without(tasks, id)
  /\ loading' = FALSE
  /\ last' = [kind |-> tasks[id].kind, outcome |-> outcome,
              alerted |-> alerted, download |-> download, saved |-> saved]

\* which catch blocks call alert (lines 90, 107, 216)
alertsOnError(kind) == kind \in {"runMerge", "runSplit", "runPhotoToPdf"}

AwaitRejectsThenDownloads(id) ==
  /\ id \in DOMAIN tasks
  /\ Return(id, "failed", alertsOnError(tasks[id].kind),
            <<downloadBlob("application/pdf", 0, tasks[id].name)>>, <<>>)
  /\ UNCHANGED <<mode, files, chatHistory, inputText, outputFilename, started, call>>

\* the awaited call rejects: catch, then finally
AwaitRejects(id) ==
  /\ id \in DOMAIN tasks
  /\ Return(id, "failed", alertsOnError(tasks[id].kind), <<>>, <<>>)
  /\ UNCHANGED <<mode, files, chatHistory, inputText, outputFilename, started, call>>

Decodable(t) == \A k \in 1..Len(t.input) : t.input[k].valid

\* editPdf (lines 439-458): the overlay drawn on every page
editPdf(pdf, overlayText) ==
  [i \in 1..Len(pdf) |->
     [pdf[i] EXCEPT !.drawn =
        Append(@, [text |-> overlayText, x |-> 50 * 100, fromTop |-> 50 * 100,
                   size |-> 30 * 100])]]

\* runMerge, runSplit, runEdit: the pdfService call resolves, the result is
\* downloaded
ServiceResolves(id) ==
  /\ id \in DOMAIN tasks
  /\ tasks[id].pc \in {"mergePdfs", "splitPdf", "editPdf"}
  /\ Decodable(tasks[id])
  /\ LET t == tasks[id]
         result == CASE t.pc = "mergePdfs" ->
                          mergePdfs([k \in 1..Len(t.input) |-> t.input[k].pages])
                     [] t.pc = "splitPdf" -> splitPdf(t.input[1].pages, t.pageArr)
                     [] t.pc = "editPdf" -> editPdf(t.input[1].pages, t.text)
         fallback == CASE t.pc = "mergePdfs" -> S_merged_ok
                       [] t.pc = "splitPdf" -> S_split_ok
                       [] t.pc = "editPdf" -> S_edited_ok
     IN  Return(id, "done", FALSE,
                <<downloadBlob("application/pdf", Len(result), OrElse(t.name, fallback))>>,
                <<Len(result)>>)
  /\ UNCHANGED <<mode, files, chatHistory, inputText, outputFilename, started, call>>

\* runRead, runTranslate, runConvertDoc: extractText resolves
ExtractResolves(id) ==
  /\ id \in DOMAIN tasks
  /\ tasks[id].pc = "extractText"
  /\ Decodable(tasks[id])
  /\ tasks' = [tasks EXCEPT ![id].pc = "generateContent",
                            ![id].val = extractText(tasks[id].input[1].pages)]
  /\ UNCHANGED <<mode, files, loading, chatHistory, inputText,
                 outputFilename, started, call>>
  /\ last' = NoHandler

\* runPhotoToPdf: fileToBase64 resolves
Base64Resolves(id) ==
  /\ id \in DOMAIN tasks
  /\ tasks[id].pc = "fileToBase64"
  /\ tasks' = [tasks EXCEPT ![id].pc = "generateContent"]
  /\ UNCHANGED <<mode, files, loading, chatHistory, inputText,
                 outputFilename, started, call>>
  /\ last' = NoHandler

\* ai.models.generateContent resolves with response.text = text
GenerateResolves(id) ==
  /\ id \in DOMAIN tasks
  /\ tasks[id].pc = "generateContent"
  /\ \E text \in ResponseTexts :
       LET t == tasks[id] IN
       CASE t.kind = "runRead" ->
              /\ chatHistory' = Append(chatHistory,
                   [role |-> "model", content |-> OrElse(text, S_NoResponse),
                    by |-> t.no])
              /\ Return(id, "done", FALSE, <<>>, <<>>)
              /\ UNCHANGED <<mode, files, inputText, outputFilename, started, call>>
         [] t.kind = "runConvertDoc" ->
              /\ Return(id, "done", FALSE,
                   <<downloadBlob("application/msword", 0,
                                  OrElse(t.name, S_converted_ok) \o S_doc)>>, <<>>)
              /\ UNCHANGED <<mode, files, chatHistory, inputText, outputFilename,
                             started, call>>
         [] t.kind = "runTranslate" ->
              /\ tasks' = [tasks EXCEPT ![id].pc = "createPdfFromText",
                             ![id].val = OrElse(text, S_TranslationFailed)]
              /\ UNCHANGED <<mode, files, loading, chatHistory, inputText,
                 outputFilename, started, call>>
              /\ last' = NoHandler
         [] t.kind = "runPhotoToPdf" ->
              /\ tasks' = [tasks EXCEPT ![id].pc = "createPdfFromText",
                             ![id].val = OrElse(text, S_NoTextFound)]
              /\ UNCHANGED <<mode, files, loading, chatHistory, inputText,
                 outputFilename, started, call>>
              /\ last' = NoHandler

\* runTranslate, runPhotoToPdf: createPdfFromText resolves, the result is
\* downloaded
CreatePdfResolves(id) ==
  /\ id \in DOMAIN tasks
  /\ tasks[id].pc = "createPdfFromText"
  /\ LET t == tasks[id]
         result == createPdfFromText(t.val)
         fallback == IF t.kind = "runTranslate" THEN S_hindi_ok ELSE S_photo_ok
     IN  Return(id, "done", FALSE,
                <<downloadBlob("application/pdf", Len(result), OrElse(t.name, fallback))>>,
                <<Len(result)>>)
  /\ UNCHANGED <<mode, files, chatHistory, inputText, outputFilename, started, call>>

(***************************************************************************)
(* The rendered controls (lines 232-395)                                   *)
(***************************************************************************)
\* the logo (line 237)
ClickLogo ==
  /\ mode' = "HOME"
  /\ UNCHANGED <<files, loading, chatHistory, inputText, outputFilename,
                 tasks, started, call>>
  /\ last' = NoHandler

\* Back to Dashboard (lines 241-248)
BackToDashboard ==
  /\ mode # "HOME"
  /\ mode' = "HOME"
  /\ files' = <<>>
  /\ chatHistory' = <<>>
  /\ UNCHANGED <<loading, inputText, outputFilename, tasks, started, call>>
  /\ last' = NoHandler

\* a tool card of the dashboard (lines 261-273)
SelectTool ==
  /\ mode = "HOME"
  /\ \E tool \in ToolModes : mode' = tool
  /\ UNCHANGED <<files, loading, chatHistory, inputText, outputFilename,
                 tasks, started, call>>
  /\ last' = NoHandler

\* the Output Filename input (lines 292-298)
SetOutputFilename ==
  /\ mode # "HOME"
  /\ \E v \in OutputNames \ {outputFilename} : outputFilename' = v
  /\ UNCHANGED <<mode, files, loading, chatHistory, inputText,
                 tasks, started, call>>
  /\ last' = NoHandler

\* the chat input's onChange (line 350)
SetInputText ==
  /\ mode = "READ"
  /\ \E v \in InputTexts \ {inputText} : inputText' = v
  /\ UNCHANGED <<mode, files, loading, chatHistory, outputFilename,
                 tasks, started, call>>
  /\ last' = NoHandler

\* the chat input's onKeyPress with Enter (line 351): the input is never
\* disabled
PressEnter ==
  /\ mode = "READ"
  /\ runRead

\* the SEND button (lines 355-361)
sendDisabled == loading
ClickSend ==
  /\ mode = "READ"
  /\ ~sendDisabled
  /\ runRead

\* the GENERATE button (lines 368-381)
generateDisabled == loading \/ Len(files) = 0
ClickGenerate ==
  /\ mode \notin {"HOME", "READ"}
  /\ ~generateDisabled
  /\ \/ mode = "MERGE" /\ runMerge
     \/ mode = "SPLIT" /\ runSplit
     \/ mode = "EDIT" /\ runEdit
     \/ mode = "TRANSLATE" /\ runTranslate
     \/ mode = "CONVERT_DOC" /\ runConvertDoc
     \/ mode = "PHOTO_TO_PDF" /\ runPhotoToPdf

UserEvent ==
  \/ handleFileUpload \/ removeFile
  \/ ClickLogo \/ BackToDashboard \/ SelectTool
  \/ SetOutputFilename \/ SetInputText
  \/ ClickSend \/ PressEnter \/ ClickGenerate

Continue(id) ==
  \/ AwaitRejects(id)
  \/ ServiceResolves(id)
  \/ ExtractResolves(id)
  \/ Base64Resolves(id)
  \/ GenerateResolves(id)
  \/ CreatePdfResolves(id)

Next == UserEvent \/ \E id \in 1..MaxStarts : Continue(id)

Spec == Init /\ [][Next]_vars

(***************************************************************************)
(* SvcSpec: one pdfService call, stepped through its awaits and loops      *)
(***************************************************************************)
SvcDocs ==
  {File(<<"D", n>>, TRUE, NumberedPages(<<"D", n>>, n)) : n \in 0..MaxPageCount}
RequestValues == (-1)..(MaxPageCount + 2)

\* fragments a page's text content may hold; one of them reads like a marker
ItemChoices ==
  {<<>>, << <<"a">> >>, << <<"a">>, <<"b", "c">> >>, << PageMarker(1) >>}
RECURSIVE Repeat(_, _)
Repeat(x, n) == IF n = 0 THEN <<>> ELSE <<x>> \o Repeat(x, n - 1)
LongLine == Repeat("x", maxChars + 1)
LineChoices == {<<>>, <<"a", "b">>, LongLine}

SplitCalls ==
  {[op |-> "splitPdf", pc |-> "load", file |-> f, pageNumbers |-> r,
    indices |-> <<>>, newPdf |-> <<>>, saved |-> <<>>] :
     f \in SvcDocs \cup {BadFile}, r \in SeqsUpTo(RequestValues, MaxRequest)}
MergeCalls ==
  {[op |-> "mergePdfs", pc |-> "loop", files |-> fs, k |-> 1,
    mergedPdf |-> <<>>, saved |-> <<>>] :
     fs \in SeqsUpTo({f \in SvcDocs : Len(f.pages) <= 2} \cup {BadFile},
                     MaxMergeFiles)}
ExtractCalls ==
  {[op |-> "extractText", pc |-> "loop", pdf |-> TextPages(q), i |-> 1,
    fullText |-> <<>>, visited |-> <<>>] :
     q \in SeqsUpTo(ItemChoices, MaxPageCount)}
LayoutCalls ==
  {[op |-> "createPdfFromText", pc |-> "split",
    text |-> Join(Repeat(l, n), <<NL>>), lines |-> <<>>, k |-> 1,
    st |-> layoutStart, saved |-> <<>>] :
     l \in LineChoices, n \in 1..MaxLines}

SvcInit ==
  /\ AppInit
  /\ call \in SplitCalls \cup MergeCalls \cup ExtractCalls \cup LayoutCalls

\* splitPdf, lines 424-425: decode the file
SplitLoad ==
  /\ call.op = "splitPdf" /\ call.pc = "load"
  /\ call' = IF call.file.valid THEN [call EXCEPT !.pc = "select"]
             ELSE [call EXCEPT !.pc = "rejected"]
  /\ UNCHANGED appVars

\* splitPdf, lines 426-433: select, copy, add, save
SplitCopySave ==
  /\ call.op = "splitPdf" /\ call.pc = "select"
  /\ LET pdf == call.file.pages
         indices == selectIndices(call.pageNumbers, Len(pdf))
         newPdf == splitPdf(pdf, call.pageNumbers)
     IN  call' = [call EXCEPT !.pc = "done", !.indices = indices,
                              !.newPdf = newPdf, !.saved = <<Len(newPdf)>>]
  /\ UNCHANGED appVars

\* mergePdfs, lines 411-416: one iteration of the loop over the files
MergeFile ==
  /\ call.op = "mergePdfs" /\ call.pc = "loop" /\ call.k <= Len(call.files)
  /\ LET file == call.files[call.k]
     IN  call' = IF file.valid
                 THEN [call EXCEPT !.k = @ + 1,
                                   !.mergedPdf = mergeOne(@, file.pages)]
                 ELSE [call EXCEPT !.pc = "rejected"]
  /\ UNCHANGED appVars

\* mergePdfs, line 417
MergeSave ==
  /\ call.op = "mergePdfs" /\ call.pc = "loop" /\ call.k > Len(call.files)
  /\ call' = [call EXCEPT !.pc = "done", !.saved = <<Len(call.mergedPdf)>>]
  /\ UNCHANGED appVars

\* extractText, lines 469-474: one iteration of the loop over the pages
ExtractPage ==
  /\ call.op = "extractText" /\ call.pc = "loop" /\ call.i <= Len(call.pdf)
  /\ LET page == call.pdf[call.i]
     IN  call' = [call EXCEPT !.fullText = @ \o pageBlock(call.i, page.items),
                              !.visited = Append(@, call.i),
                              !.i = @ + 1]
  /\ UNCHANGED appVars

\* extractText, line 476
ExtractReturn ==
  /\ call.op = "extractText" /\ call.pc = "loop" /\ call.i > Len(call.pdf)
  /\ call' = [call EXCEPT !.pc = "done"]
  /\ UNCHANGED appVars

\* createPdfFromText, lines 483-491
LayoutBegin ==
  /\ call.op = "createPdfFromText" /\ call.pc = "split"
  /\ call' = [call EXCEPT !.pc = "loop", !.lines = Split(call.text, NL),
                          !.st = layoutStart]
  /\ UNCHANGED appVars

\* createPdfFromText, lines 493-506: one iteration of the loop over the lines
LayoutLine ==
  /\ call.op = "createPdfFromText" /\ call.pc = "loop"
  /\ call.k <= Len(call.lines)
  /\ call' = [call EXCEPT !.st = layoutLine(@, call.lines[call.k]),
                          !.k = @ + 1]
  /\ UNCHANGED appVars

\* createPdfFromText, line 508
LayoutSave ==
  /\ call.op = "createPdfFromText" /\ call.pc = "loop"
  /\ call.k > Len(call.lines)
  /\ call' = [call EXCEPT !.pc = "done", !.saved = <<Len(call.st.pages)>>]
  /\ UNCHANGED appVars

SvcNext ==
  \/ SplitLoad \/ SplitCopySave
  \/ MergeFile \/ MergeSave
  \/ ExtractPage \/ ExtractReturn
  \/ LayoutBegin \/ LayoutLine \/ LayoutSave

SvcSpec == SvcInit /\ [][SvcNext]_vars

(***************************************************************************)
(* Properties of the pdfService functions (SvcSpec)                        *)
(***************************************************************************)
SplitDone == call.op = "splitPdf" /\ call.pc = "done"
MergeDone == call.op = "mergePdfs" /\ call.pc = "done"
ExtractDone == call.op = "extractText" /\ call.pc = "done"
LayoutDone == call.op = "createPdfFromText" /\ call.pc = "done"

\* the positions of r whose number, made zero-indexed, is a page of a
\* p-page document
ValidPositions(r, p) == {j \in 1..Len(r) : 0 <= r[j] - 1 /\ r[j] - 1 < p}
RankIn(V, j) == Cardinality({m \in V : m <= j})
IsSelectionOf(ind, r, p) ==
  LET V == ValidPositions(r, p)
  IN  /\ Len(ind) = Cardinality(V)
      /\ \A j \in V : ind[RankIn(V, j)] = r[j] - 1

\* C4: the indices splitPdf selects are exactly the in-range entries of the
\* request, shifted to zero-indexed form, in request order with duplicates
\* kept; an out-of-range request is dropped and raises no error; [1,3,1] of
\* 5 pages gives [0,2,0] and [0,10] of 5 pages gives the empty sequence.
C4_PageSelection ==
  /\ selectIndices(<<1, 3, 1>>, 5) = <<0, 2, 0>>
  /\ selectIndices(<<0, 10>>, 5) = <<>>
  /\ SplitDone =>
       IsSelectionOf(call.indices, call.pageNumbers, Len(call.file.pages))
  /\ (call.op = "splitPdf" /\ call.pc = "rejected") => ~call.file.valid

C4_Witness ==
  /\ SplitDone
  /\ call.pageNumbers = <<1, 3, 1>> /\ Len(call.file.pages) = 3
  /\ call.indices = <<0, 2, 0>>

C4_WitnessDropped ==
  /\ SplitDone
  /\ call.pageNumbers = <<0, 5>> /\ Len(call.file.pages) = 3
  /\ call.indices = <<>>

RECURSIVE PagesBefore(_, _)
\* the number of pages of the first k - 1 files
PagesBefore(fs, k) ==
  IF k <= 1 THEN 0 ELSE PagesBefore(fs, k - 1) + Len(fs[k - 1].pages)

\* C7: the merged document is every source's pages in natural order, source
\* k's before source k+1's; the split document is the source's pages at the
\* selected indices in selection order; the page count is the number of
\* selected pages, and a document composed from all its own pages in natural
\* order has the same page sequence.
C7_CompositionOrder ==
  /\ MergeDone =>
       /\ Len(call.mergedPdf) = PagesBefore(call.files, Len(call.files) + 1)
       /\ \A k \in 1..Len(call.files) :
            \A j \in 1..Len(call.files[k].pages) :
              call.mergedPdf[PagesBefore(call.files, k) + j]
                = call.files[k].pages[j]
       /\ Len(call.files) = 1 => call.mergedPdf = call.files[1].pages
  /\ SplitDone =>
       /\ Len(call.newPdf) = Len(call.indices)
       /\ \A k \in 1..Len(call.indices) :
            call.newPdf[k] = call.file.pages[call.indices[k] + 1]
       /\ call.pageNumbers = [i \in 1..Len(call.file.pages) |-> i]
            => call.newPdf = call.file.pages

C7_Witness ==
  /\ MergeDone
  /\ Len(call.files) = 3
  /\ Len(call.files[1].pages) = 2 /\ Len(call.files[2].pages) = 1
  /\ Len(call.mergedPdf) >= 4

\* whether pat occurs in s at position k
OccursAt(s, pat, k) ==
  /\ k + Len(pat) - 1 <= Len(s)
  /\ SubSeq(s, k, k + Len(pat) - 1) = pat
MarkerNumbersAt(s, k) ==
  {n \in 0..(MaxPageCount + 1) : OccursAt(s, PageMarker(n), k)}
RECURSIVE MarkersFrom(_, _)
\* the page numbers of the markers `--- Page n ---` occurring in s from
\* position k on, in the order of their positions
MarkersFrom(s, k) ==
  IF k > Len(s) THEN <<>>
  ELSE (IF MarkerNumbersAt(s, k) = {} THEN <<>>
        ELSE <<CHOOSE n \in MarkerNumbersAt(s, k) : TRUE>>)
       \o MarkersFrom(s, k + 1)
Ascending(n) == [i \in 1..n |-> i]
ExpectedBlocks(pdf) ==
  Concat([n \in 1..Len(pdf) |->
            PageMarker(n) \o <<NL>> \o Join(pdf[n].items, <<" ">>)
              \o <<NL, NL>>])
HasMarkerText(pdf) ==
  \E n \in 1..Len(pdf) : MarkersFrom(Join(pdf[n].items, <<" ">>), 1) # <<>>

\* C9 as stated: pages are visited in ascending order, and the result
\* contains exactly N page markers, for n = 1..N ascending, each followed by
\* the page's fragments joined by single spaces and a blank line.
C9_ExactlyNMarkers ==
  ExtractDone =>
    /\ call.visited = Ascending(Len(call.pdf))
    /\ call.fullText = ExpectedBlocks(call.pdf)
    /\ MarkersFrom(call.fullText, 1) = Ascending(Len(call.pdf))

\* C9 as amended: extractText visits pages 1..N in ascending order, one per
\* iteration, and the result is exactly the N blocks `--- Page n ---`,
\* newline, the page's fragments joined by single spaces, blank line, for
\* n = 1..N ascending (the empty string for N = 0); the markers occurring in
\* it are exactly these N when no page's text itself reads like a marker.
C9_ExtractBlocks ==
  /\ (call.op = "extractText" /\ call.pc = "loop") =>
       /\ call.visited = Ascending(call.i - 1)
       /\ call.i <= Len(call.pdf) + 1
  /\ ExtractDone =>
       /\ call.visited = Ascending(Len(call.pdf))
       /\ call.fullText = ExpectedBlocks(call.pdf)
       /\ Len(call.pdf) = 0 => call.fullText = <<>>
       /\ ~HasMarkerText(call.pdf) =>
            MarkersFrom(call.fullText, 1) = Ascending(Len(call.pdf))

C9_Witness ==
  /\ ExtractDone
  /\ Len(call.pdf) = 3
  /\ Len(call.pdf[2].items) = 2
  /\ ~HasMarkerText(call.pdf)
  /\ MarkersFrom(call.fullText, 1) = <<1, 2, 3>>

\* the number of lines drawn on one page before the cursor falls below
\* margin + 20
LinesPerPage == ((height - margin) - (margin + breakSlack)) \div (fontSize + lineGap) + 1
InLayout == call.op = "createPdfFromText" /\ call.pc \in {"loop", "done"}
DrawsInBand ==
  InLayout =>
    \A p \in 1..Len(call.st.pages) :
      \A d \in 1..Len(call.st.pages[p]) :
        /\ margin + breakSlack <= call.st.pages[p][d].y
        /\ call.st.pages[p][d].y <= height - margin
LongTextBreaks ==
  (LayoutDone /\ Len(call.lines) > LinesPerPage) => Len(call.st.pages) > 1
BreakExactlyWhenLow ==
  (InLayout /\ call.pc = "loop" /\ call'.pc = "loop" /\ call'.k = call.k + 1)
    => /\ call.st.cursorY < margin + breakSlack
            => Len(call'.st.pages) = Len(call.st.pages) + 1
       /\ ~(call.st.cursorY < margin + breakSlack)
            => Len(call'.st.pages) = Len(call.st.pages)

\* C10: createPdfFromText draws every line at a cursor y with
\* margin + 20 <= y <= height - margin, starts a new page exactly when the
\* cursor is below margin + 20 before a line is drawn, and gives more than
\* one page to a text with more lines than fit on one page.
C10_LayoutCursor ==
  /\ [](DrawsInBand /\ LongTextBreaks)
  /\ [][BreakExactlyWhenLow]_vars

C10_Witness ==
  /\ LayoutDone
  /\ Len(call.lines) = LinesPerPage + 1
  /\ Len(call.st.pages) = 2
  /\ Len(call.st.pages[1]) = LinesPerPage

(***************************************************************************)
(* Properties of the App component (Spec, FairSpec)                        *)
(***************************************************************************)
\* every awaited call eventually resolves or rejects
FairSpec == Spec /\ \A id \in 1..MaxStarts : WF_vars(Continue(id))

\* C1 as stated: at most one action is in flight at any time.
C1_OneInFlight == Len(tasks) <= 1

\* C2 as stated: an action that fails after it has started shows the user an
\* alert before it ends.
C2_FailureAlerts == last.outcome = "failed" => last.alerted

\* C3: an action that fails emits no download, and the step in which it
\* fails leaves the file list and the selected mode as they were and resets
\* the busy flag, so that the same action can be triggered again.
C3_FailureAtomic ==
  /\ [](last.outcome = "failed" => last.download = <<>>)
  /\ [][last'.outcome = "failed" =>
          /\ files' = files
          /\ mode' = mode
          /\ outputFilename' = outputFilename
          /\ loading' = FALSE]_vars

C3_Witness ==
  /\ last.outcome = "failed" /\ last.kind = "runMerge"
  /\ mode = "MERGE" /\ Len(files) = 2
  /\ ~generateDisabled

\* C5 as stated: save is called only on a document with at least one page.
C5_SavedHasPage == \A k \in 1..Len(last.saved) : last.saved[k] >= 1

\* a handler invoked on degenerate input: no file, or for merge fewer than 2
DegenerateInvocation ==
  \/ Len(files) = 0 /\ (ClickSend \/ PressEnter \/ ClickGenerate)
  \/ mode = "MERGE" /\ Len(files) < 2 /\ ClickGenerate

\* C6: a handler invoked with an empty file list (for merge: fewer than 2
\* files) returns at its precondition check: loading is not set, no
\* pdfService or language-model call is made, no download is emitted and the
\* chat transcript is unchanged.
C6_PreconditionRejects ==
  [][DegenerateInvocation =>
       /\ last'.outcome = "rejected"
       /\ loading' = loading
       /\ tasks' = tasks /\ started' = started
       /\ last'.download = <<>> /\ last'.saved = <<>>
       /\ chatHistory' = chatHistory
       /\ inputText' = inputText]_vars

C6_Witness ==
  /\ last.outcome = "rejected" /\ last.kind = "runMerge"
  /\ mode = "MERGE" /\ Len(files) = 1
  /\ ~loading /\ tasks = <<>>

C6_WitnessRead ==
  /\ last.outcome = "rejected" /\ last.kind = "runRead"
  /\ mode = "READ" /\ Len(files) = 0 /\ inputText # <<>>
  /\ chatHistory = <<>> /\ tasks = <<>>

IsPrefix(p, q) == Len(p) <= Len(q) /\ SubSeq(q, 1, Len(p)) = p

\* C8: every action that has started ends, given that every awaited call
\* eventually resolves or rejects, and the step that ends it resets loading;
\* no user event takes an action in flight out of flight or moves it.
C8_RunsToEnd ==
  /\ (tasks # <<>>) ~> (tasks = <<>> /\ ~loading)
  /\ [][Len(tasks') < Len(tasks) => loading' = FALSE]_vars
  /\ [][UserEvent => IsPrefix(tasks, tasks')]_vars

C8_Witness ==
  /\ Len(tasks) = 1 /\ tasks[1].kind = "runPhotoToPdf"
  /\ tasks[1].pc = "generateContent"
  /\ mode = "HOME" /\ files = <<>> /\ outputFilename = <<>>

\* C11 as stated: in every reachable state in which an action has passed
\* its precondition checks and has not yet completed or failed, loading is
\* true.
C11_LoadingWhileInFlight == tasks # <<>> => loading

\* C12 as stated: every 'model' message of the transcript is immediately
\* preceded by the 'user' message of the runRead invocation that produced
\* it.
C12_ReplyFollowsQuestion ==
  \A k \in 1..Len(chatHistory) :
    chatHistory[k].role = "model" =>
      /\ k > 1
      /\ chatHistory[k - 1].role = "user"
      /\ chatHistory[k - 1].by = chatHistory[k].by

====
